---- MODULE Spec2Model ----
(***************************************************************************)
(* Model of the SIUE-ARC Micro-Mouse test infrastructure:                  *)
(*   Simulation/Mazes/generate_maze.py  - maze generator and validator     *)
(*   Simulation/Mazes/test_harness.py   - headless protocol simulator      *)
(*                                                                         *)
(* Three specifications share the variables:                               *)
(*   SpecGen - generate_maze(width, height), one action per program step   *)
(*   SpecFC  - is_fully_connected run on arbitrary small wall models       *)
(*   SpecSim - simulate(maze_filepath), one action per loop iteration      *)
(***************************************************************************)
EXTENDS Integers, Sequences, FiniteSets, TLC

(***************************************************************************)
(* Bounds of the model.                                                    *)
(***************************************************************************)
\* On a grid of at most SmallGrid cells every draw of the random module is
\* unconstrained.  On a larger grid the draws are those of a generator that
\* was seeded with one of the seeds 0 .. MaxSeed - 1.
SmallGrid == 6
\* The numbers a field of a .maz file is read as are 0 .. MaxInt.
MaxInt == 11
\* The process that may send any line sends at most ProbeLen lines on a
\* maze where it can move about freely.
ProbeLen == 3
MaxSeed == 60
\* generate_maze retries for ever; the model stops after MaxAttempts attempts.
MaxAttempts == 2
\* Calls of is_fully_connected made on one wall model in SpecFC.
MaxRuns == 2

\* The (width, height) arguments generate_maze is called with.  (10, 10) is
\* the default of the source; the others are the small and the misplaced
\* grids the parameter checks are about.
Sizes == {<<0, 2>>, <<1, 1>>, <<2, 2>>, <<3, 2>>, <<2, 3>>, <<6, 6>>, <<10, 10>>}

\* The grids is_fully_connected is run on in SpecFC, each with every
\* assignment of its two boolean matrices.
FCSizes == {<<1, 1>>, <<2, 2>>, <<3, 2>>, <<2, 3>>}

VARIABLES
    \* ---- generate_maze ----
    width, height,        \* arguments of generate_maze / is_fully_connected
    horiz, vert,          \* horiz[y][x]: wall above (x,y); vert[y][x]: wall right of (x,y)
    seen,                 \* seen[y][x] of the growth step
    candidate_walls,      \* the frontier list
    attempts,             \* attempts counter
    rng,                  \* the state of the random module's generator
    pc,                   \* position in generate_maze
    \* ---- is_fully_connected, run on its own ----
    fc,                   \* [visited, queue, count] of the traversal
    fc_pc,                \* "idle", "loop" or "done"
    fc_results,           \* the values returned by the calls made so far
    \* ---- the maze file ----
    maz,                  \* the lines of the .maz file save_maze has written
    maz_pc,               \* "idle", "save", "load" or "loaded"
    \* ---- simulate ----
    walls,                \* load_maze(maze_filepath): (x, y) -> [n, e, s, w]
    state,                \* the state dict: [x, y, heading, steps]
    reached_center, reached_start,
    success, reason,      \* the fields of the result record (with state.steps)
    line,                 \* the value of the last process.stdout.readline()
    reply,                \* what the last iteration wrote to process.stdin ("" if nothing)
    proc,                 \* the driven process: "none", "running", "exited", "killed"
    script,               \* the driven process: what it sends, [lines, back]
    ip,                   \* the place in script.lines of the line it sends next
    issued,               \* history: the moveForward lines read from the process
    sim_pc                \* "idle", "launch", "loop", "returned" or "raised"

gridvars == <<width, height, horiz, vert>>
growvars == <<seen, candidate_walls, attempts, rng, pc>>
fcvars == <<fc, fc_pc, fc_results>>
filevars == <<maz, maz_pc>>
simvars == <<walls, state, reached_center, reached_start, success, reason,
             line, reply, proc, script, ip, issued, sim_pc>>

vars == <<gridvars, growvars, fcvars, filevars, simvars>>

(***************************************************************************)
(* Grid wall model helpers.                                                *)
(***************************************************************************)
\* [[b for _ in range(w)] for _ in range(h)]
Matrix(w, h, b) == [yy \in 0..(h - 1) |-> [xx \in 0..(w - 1) |-> b]]

\* m[yy][xx] = b
Set2(m, yy, xx, b) == [m EXCEPT ![yy][xx] = b]

Cells(w, h) == (0..(w - 1)) \X (0..(h - 1))

(***************************************************************************)
(* generate_maze.py: is_fully_connected (lines 29-76).                     *)
(* The traversal state is the record [visited, queue, count].              *)
(***************************************************************************)
\* lines 43-47
FCInit(w, h) ==
    [visited |-> Set2(Matrix(w, h, FALSE), 0, 0, TRUE),
     queue   |-> << <<0, 0>> >>,
     count   |-> 1]

\* One of the four "try moving" blocks: gate, mark, count, enqueue.
FCTry(st, gate, nx, ny) ==
    IF gate /\ ~st.visited[ny][nx]
    THEN [visited |-> Set2(st.visited, ny, nx, TRUE),
          queue   |-> Append(st.queue, <<nx, ny>>),
          count   |-> st.count + 1]
    ELSE st

\* The gates of lines 53, 59, 65, 71 ("and" short-circuits, so the matrix is
\* only read when the bound check holds).
NorthOpen(h, v, w, hh, cx, cy) == cy < hh - 1 /\ ~h[cy][cx]
EastOpen(h, v, w, hh, cx, cy)  == cx < w - 1 /\ ~v[cy][cx]
SouthOpen_wrongrow(h, v, w, hh, cx, cy) == cy > 0 /\ ~h[cy][cx]
SouthOpen(h, v, w, hh, cx, cy) == cy > 0 /\ ~h[cy - 1][cx]
WestOpen(h, v, w, hh, cx, cy)  == cx > 0 /\ ~v[cy][cx - 1]

\* One iteration of "while queue:" (lines 50-74).
FCStep(st, h, v, w, hh) ==
    LET cx == Head(st.queue)[1]
        cy == Head(st.queue)[2]
        s0 == [st EXCEPT !.queue = Tail(st.queue)]
        s1 == FCTry(s0, NorthOpen(h, v, w, hh, cx, cy), cx, cy + 1)
        s2 == FCTry(s1, EastOpen(h, v, w, hh, cx, cy), cx + 1, cy)
        s3 == FCTry(s2, SouthOpen(h, v, w, hh, cx, cy), cx, cy - 1)
        s4 == FCTry(s3, WestOpen(h, v, w, hh, cx, cy), cx - 1, cy)
    IN s4

RECURSIVE FCRun(_, _, _, _, _)
FCRun(st, h, v, w, hh) ==
    IF st.queue = << >> THEN st ELSE FCRun(FCStep(st, h, v, w, hh), h, v, w, hh)

\* line 76
is_fully_connected_skip(h, v, w, hh) == TRUE
is_fully_connected(h, v, w, hh) ==
    FCRun(FCInit(w, hh), h, v, w, hh).count = w * hh

(***************************************************************************)
(* generate_maze.py: generate_maze (lines 79-214).                         *)
(***************************************************************************)
\* add_walls (lines 104-108): the candidates appended for cell (cx, cy)
add_walls_noeast(cx, cy, w, h) ==
    (IF cx > 0 THEN << <<cx - 1, cy, cx, cy, "v">> >> ELSE << >>) \o
    (IF cy > 0 THEN << <<cx, cy - 1, cx, cy, "h">> >> ELSE << >>) \o
    (IF cy < h - 1 THEN << <<cx, cy, cx, cy + 1, "h">> >> ELSE << >>)
add_walls(cx, cy, w, h) ==
    (IF cx > 0 THEN << <<cx - 1, cy, cx, cy, "v">> >> ELSE << >>) \o
    (IF cx < w - 1 THEN << <<cx, cy, cx + 1, cy, "v">> >> ELSE << >>) \o
    (IF cy > 0 THEN << <<cx, cy - 1, cx, cy, "h">> >> ELSE << >>) \o
    (IF cy < h - 1 THEN << <<cx, cy, cx, cy + 1, "h">> >> ELSE << >>)

\* list.pop(i), i counted from 0: the list without that element
Pop(s, i) == SubSeq(s, 1, i) \o SubSeq(s, i + 2, Len(s))

\* The random module (line 2).  Its generator is deterministic once seeded;
\* the model steps a small linear congruential generator in its place, so a
\* behaviour of the model is the program run on one possible stream of draws.
NextRng(r) == (75 * r + 74) % 65537

\* Whether the draws are unconstrained on a grid of this size.
FreeDraws(w, h) == w * h <= SmallGrid

\* The values a draw from range(n) may return: random.randint(0, n - 1) at
\* line 115, the index random.choice takes at lines 180 and 194.
RandBelow(n) ==
    IF FreeDraws(width, height) THEN 0..(n - 1) ELSE {NextRng(rng) % n}

\* The generator after a draw.
Drawn == rng' = IF FreeDraws(width, height) THEN rng ELSE NextRng(rng)

\* line 118: seen[y1][x1] ^ seen[y2][x2]
ExactlyOneSeen_or(s, x1, y1, x2, y2) == s[y1][x1] \/ s[y2][x2]
ExactlyOneSeen(s, x1, y1, x2, y2) == s[y1][x1] # s[y2][x2]

\* The literal indices of the 2x2 center block (lines 153-169).
CLo == 4
CHi == 5

\* center_perimeter (lines 161-170), in the order of the source
center_perimeter ==
    << <<CLo, CLo - 1, "h">>, <<CHi, CLo - 1, "h">>,
       <<CLo, CHi, "h">>,     <<CHi, CHi, "h">>,
       <<CLo - 1, CLo, "v">>, <<CLo - 1, CHi, "v">>,
       <<CHi, CLo, "v">>,     <<CHi, CHi, "v">> >>

\* The interior walls cleared by lines 153-156, as <<x, y, type>>
center_interior ==
    << <<CLo, CLo, "v">>, <<CLo, CHi, "v">>, <<CLo, CLo, "h">>, <<CHi, CLo, "h">> >>

\* horiz[y][x] = b or vert[y][x] = b for a wall <<x, y, type>> of a pair
\* hv = <<horiz, vert>>
SetWall(hv, wl, b) ==
    IF wl[3] = "h" THEN <<Set2(hv[1], wl[2], wl[1], b), hv[2]>>
                   ELSE <<hv[1], Set2(hv[2], wl[2], wl[1], b)>>

RECURSIVE SetWalls(_, _, _)
SetWalls(hv, wls, b) ==
    IF wls = << >> THEN hv ELSE SetWalls(SetWall(hv, Head(wls), b), Tail(wls), b)

WallAt(h, v, wl) == IF wl[3] = "h" THEN h[wl[2]][wl[1]] ELSE v[wl[2]][wl[1]]

\* Every index the center overlay touches is at most CHi in both directions:
\* a list index out of range raises IndexError.
OverlayInRange(w, h) == w > CHi /\ h > CHi

\* The other specifications' variables, at rest.
FCIdle == fc = FCInit(1, 1) /\ fc_pc = "idle" /\ fc_results = << >>
FileIdle == maz = << >> /\ maz_pc = "idle"
SimIdle ==
    /\ walls = << >> /\ state = [x |-> 0, y |-> 0, heading |-> 0, steps |-> 0]
    /\ reached_center = FALSE /\ reached_start = FALSE
    /\ success = FALSE /\ reason = "Unknown"
    /\ line = <<"(unset)">> /\ reply = "" /\ proc = "none"
    /\ script = [lines |-> << >>, back |-> 0] /\ ip = 1 /\ issued = 0
    /\ sim_pc = "idle"
GrowIdle ==
    /\ seen = << >> /\ candidate_walls = << >>
    /\ attempts = 0 /\ rng = 0 /\ pc = "idle"

GenInit ==
    /\ \E s \in Sizes :
        /\ width = s[1] /\ height = s[2]
        /\ rng \in IF FreeDraws(s[1], s[2]) THEN {0} ELSE 0..(MaxSeed - 1)
    /\ horiz = << >> /\ vert = << >> /\ seen = << >>
    /\ candidate_walls = << >>
    /\ attempts = 0
    /\ pc = "attempt"
    /\ FCIdle
    /\ FileIdle
    /\ SimIdle

\* lines 90-111: a fresh attempt.  seen[0][0] raises IndexError on an empty grid.
GenAttempt ==
    /\ pc = "attempt"
    /\ attempts < MaxAttempts
    /\ attempts' = attempts + 1
    /\ horiz' = Matrix(width, height, TRUE)
    /\ vert' = Matrix(width, height, TRUE)
    /\ IF width >= 1 /\ height >= 1
       THEN /\ seen' = Set2(Matrix(width, height, FALSE), 0, 0, TRUE)
            /\ candidate_walls' = add_walls(0, 0, width, height)
            /\ pc' = "grow"
       ELSE /\ seen' = Matrix(width, height, FALSE)
            /\ candidate_walls' = << >>
            /\ pc' = "IndexError"
    /\ UNCHANGED <<width, height, rng, fcvars, filevars, simvars>>

\* lines 113-125: one iteration of "while candidate_walls:"
GenGrow ==
    /\ pc = "grow"
    /\ candidate_walls # << >>
    /\ \E i \in RandBelow(Len(candidate_walls)) :
        LET c == candidate_walls[i + 1]
            x1 == c[1]
            y1 == c[2]
            x2 == c[3]
            y2 == c[4]
            dtype == c[5]
            rest == Pop(candidate_walls, i)
        IN IF ExactlyOneSeen(seen, x1, y1, x2, y2)
           THEN LET new_x == IF ~seen[y2][x2] THEN x2 ELSE x1
                    new_y == IF ~seen[y2][x2] THEN y2 ELSE y1
                IN /\ vert' = IF dtype = "v" THEN Set2(vert, y1, x1, FALSE) ELSE vert
                   /\ horiz' = IF dtype = "v" THEN horiz ELSE Set2(horiz, y1, x1, FALSE)
                   /\ seen' = Set2(seen, new_y, new_x, TRUE)
                   /\ candidate_walls' = rest \o add_walls(new_x, new_y, width, height)
           ELSE /\ candidate_walls' = rest
                /\ UNCHANGED <<horiz, vert, seen>>
    /\ Drawn
    /\ UNCHANGED <<width, height, attempts, pc, fcvars, filevars, simvars>>

\* line 113: the frontier is empty, the growth loop ends
GenGrowDone ==
    /\ pc = "grow"
    /\ candidate_walls = << >>
    /\ pc' = "center"
    /\ UNCHANGED <<width, height, horiz, vert, seen, candidate_walls, attempts, rng, fcvars, filevars, simvars>>

\* lines 153-184: the center overlay.  ei is the place in center_perimeter
\* of the wall random.choice picks.
OverlayCenter_noseal(hv, ei) ==
    SetWall(SetWalls(hv, center_interior, FALSE), center_perimeter[ei], FALSE)
OverlayCenter_closed(hv, ei) ==
    SetWall(SetWalls(hv, center_perimeter, TRUE), center_perimeter[ei], FALSE)
OverlayCenter(hv, ei) ==
    SetWall(SetWalls(SetWalls(hv, center_interior, FALSE), center_perimeter, TRUE),
            center_perimeter[ei], FALSE)

GenCenter ==
    /\ pc = "center"
    /\ IF OverlayInRange(width, height)
       THEN \E i \in RandBelow(Len(center_perimeter)) :
                /\ horiz' = OverlayCenter(<<horiz, vert>>, i + 1)[1]
                /\ vert' = OverlayCenter(<<horiz, vert>>, i + 1)[2]
                /\ pc' = "start"
                /\ Drawn
       ELSE /\ pc' = "IndexError"
            /\ UNCHANGED <<horiz, vert, rng>>
    /\ UNCHANGED <<width, height, seen, candidate_walls, attempts, fcvars, filevars, simvars>>

\* lines 194-199: the start-cell overlay.  b is random.choice([True, False]).
OverlayStart_both(hv, b) == <<Set2(hv[1], 0, 0, FALSE), Set2(hv[2], 0, 0, FALSE)>>
OverlayStart(hv, b) ==
    IF b THEN <<Set2(hv[1], 0, 0, TRUE), Set2(hv[2], 0, 0, FALSE)>>
         ELSE <<Set2(hv[1], 0, 0, FALSE), Set2(hv[2], 0, 0, TRUE)>>

GenStart ==
    /\ pc = "start"
    /\ \E i \in RandBelow(2) :
        /\ horiz' = OverlayStart(<<horiz, vert>>, <<TRUE, FALSE>>[i + 1])[1]
        /\ vert' = OverlayStart(<<horiz, vert>>, <<TRUE, FALSE>>[i + 1])[2]
    /\ Drawn
    /\ pc' = "check"
    /\ UNCHANGED <<width, height, seen, candidate_walls, attempts, fcvars, filevars, simvars>>

\* lines 209-214: return the maze when it is connected, retry otherwise
GenCheck ==
    /\ pc = "check"
    /\ pc' = IF is_fully_connected(horiz, vert, width, height)
             THEN "returned" ELSE "attempt"
    /\ UNCHANGED <<width, height, horiz, vert, seen, candidate_walls, attempts, rng, fcvars, filevars, simvars>>

(***************************************************************************)
(* generate_maze.py: save_maze (lines 217-243).                            *)
(***************************************************************************)
\* lines 237-241: the line written for cell (cx, cy)
SaveCell_opennorth(h, v, w, hh, cx, cy) ==
    <<cx, cy,
      IF h[cy][cx] THEN 1 ELSE 0,
      IF cx = w - 1 \/ v[cy][cx] THEN 1 ELSE 0,
      IF cy = 0 \/ h[cy - 1][cx] THEN 1 ELSE 0,
      IF cx = 0 \/ v[cy][cx - 1] THEN 1 ELSE 0>>
SaveCell_openeast(h, v, w, hh, cx, cy) ==
    <<cx, cy,
      IF cy = hh - 1 \/ h[cy][cx] THEN 1 ELSE 0,
      IF v[cy][cx] THEN 1 ELSE 0,
      IF cy = 0 \/ h[cy - 1][cx] THEN 1 ELSE 0,
      IF cx = 0 \/ v[cy][cx - 1] THEN 1 ELSE 0>>
SaveCell(h, v, w, hh, cx, cy) ==
    <<cx, cy,
      IF cy = hh - 1 \/ h[cy][cx] THEN 1 ELSE 0,
      IF cx = w - 1 \/ v[cy][cx] THEN 1 ELSE 0,
      IF cy = 0 \/ h[cy - 1][cx] THEN 1 ELSE 0,
      IF cx = 0 \/ v[cy][cx - 1] THEN 1 ELSE 0>>

\* line 241: f"{x} {y} {n} {e} {s} {w}\n".  A line of text is the
\* sequence of its pieces: a number in decimal is one piece, so is a blank,
\* so is the newline.
FormatLine_nsew(c) ==
    <<ToString(c[1]), " ", ToString(c[2]), " ", ToString(c[3]), " ",
      ToString(c[5]), " ", ToString(c[4]), " ", ToString(c[6]), "\n">>
FormatLine(c) ==
    <<ToString(c[1]), " ", ToString(c[2]), " ", ToString(c[3]), " ",
      ToString(c[4]), " ", ToString(c[5]), " ", ToString(c[6]), "\n">>

\* lines 234-241: the lines of the file, column by column
save_maze(h, v, w, hh) ==
    [i \in 1..(w * hh) |->
        FormatLine(SaveCell(h, v, w, hh, (i - 1) \div hh, (i - 1) % hh))]

(***************************************************************************)
(* Graph notions the properties are stated with.  They are defined on the  *)
(* wall model directly and do not use the traversal of is_fully_connected. *)
(***************************************************************************)
\* Cells a and b are side by side and the one wall between them is absent.
Joined(h, v, a, b) ==
    \/ b = <<a[1], a[2] + 1>> /\ ~h[a[2]][a[1]]
    \/ b = <<a[1] + 1, a[2]>> /\ ~v[a[2]][a[1]]
    \/ a = <<b[1], b[2] + 1>> /\ ~h[b[2]][b[1]]
    \/ a = <<b[1] + 1, b[2]>> /\ ~v[b[2]][b[1]]

RECURSIVE ReachableFrom(_, _, _, _, _)
ReachableFrom(S, h, v, w, hh) ==
    LET N == S \cup {b \in Cells(w, hh) : \E a \in S : Joined(h, v, a, b)}
    IN IF N = S THEN S ELSE ReachableFrom(N, h, v, w, hh)

AllReachable(h, v, w, hh) ==
    ReachableFrom({<<0, 0>>}, h, v, w, hh) = Cells(w, hh)

\* What is left of the cell set V after repeatedly deleting every cell that
\* has at most one passage into V: the empty set exactly when the passages
\* form no cycle.
RECURSIVE Prune(_, _, _)
Prune(V, h, v) ==
    LET L == {a \in V : Cardinality({b \in V : Joined(h, v, a, b)}) <= 1}
    IN IF L = {} THEN V ELSE Prune(V \ L, h, v)

LoopFree(h, v, w, hh) == Prune(Cells(w, hh), h, v) = {}

\* Number of FALSE entries of the two matrices.
AbsentWalls(h, v, w, hh) ==
    Cardinality({c \in Cells(w, hh) : ~h[c[2]][c[1]]}) +
    Cardinality({c \in Cells(w, hh) : ~v[c[2]][c[1]]})

CenterCells == {<<CLo, CLo>>, <<CLo, CHi>>, <<CHi, CLo>>, <<CHi, CHi>>}

Range(s) == {s[i] : i \in 1..Len(s)}

CenterSealed(h, v) ==
    /\ \A wl \in Range(center_interior) : ~WallAt(h, v, wl)
    /\ Cardinality({i \in 1..Len(center_perimeter) : ~WallAt(h, v, center_perimeter[i])}) = 1

CenterWalls(h, v) ==
    [i \in 1..(Len(center_interior) + Len(center_perimeter)) |->
        WallAt(h, v, (center_interior \o center_perimeter)[i])]

(***************************************************************************)
(* Claims about generate_maze (checked under SpecGen).                     *)
(***************************************************************************)
\* C1: every maze generate_maze returns is fully connected: each of the W*H
\* cells is reachable from (0,0) through absent walls; and a candidate that
\* is not fully connected is never the one returned.
C1_ReturnedConnected ==
    /\ [](pc = "returned" => AllReachable(horiz, vert, width, height))
    /\ [][(pc = "check" /\ ~AllReachable(horiz, vert, width, height))
            => pc' # "returned"]_vars

\* A maze is returned after a disconnected candidate was discarded.
C1_Witness ==
    pc = "returned" /\ attempts = 2 /\ width = 10 /\ height = 10

\* C2 as stated: every returned maze is fully connected and loop-free.
C2_ReturnedPerfect ==
    pc = "returned" =>
        /\ AllReachable(horiz, vert, width, height)
        /\ LoopFree(horiz, vert, width, height)

\* C2 amended: every returned maze is fully connected, and it is never
\* loop-free: the four center cells, with the 4 walls between them absent,
\* form a cycle.  (Loop-freeness holds of the grown tree before the overlays,
\* see C5.)
C2_ReturnedConnectedWithCenterLoop ==
    pc = "returned" =>
        /\ AllReachable(horiz, vert, width, height)
        /\ ~LoopFree(horiz, vert, width, height)
        /\ Prune(CenterCells, horiz, vert) = CenterCells

C2_Witness ==
    pc = "returned" /\ width = 10 /\ height = 10 /\ attempts = 1

\* C3: in every returned maze the 4 walls inside the 2x2 center block are
\* absent and exactly 1 of its 8 perimeter walls is absent, and the start-cell
\* overlay leaves these 12 walls as the center overlay set them.
C3_CenterSealed ==
    /\ [](pc = "returned" => CenterSealed(horiz, vert))
    /\ [][pc = "start" => CenterWalls(horiz', vert') = CenterWalls(horiz, vert)]_vars

C3_Witness ==
    /\ pc = "returned" /\ width = 10
    /\ ~WallAt(horiz, vert, center_perimeter[5])

\* C4: in every returned maze the start cell has exactly one open side:
\* exactly one of horiz[0][0] (north) and vert[0][0] (east) is absent, its
\* south and west sides being the grid boundary.
C4_StartCell ==
    pc = "returned" =>
        LET c == SaveCell(horiz, vert, width, height, 0, 0)
        IN /\ horiz[0][0] # vert[0][0]
           /\ c[3] = (IF horiz[0][0] THEN 1 ELSE 0)
           /\ c[4] = (IF vert[0][0] THEN 1 ELSE 0)
           /\ c[5] = 1 /\ c[6] = 1
           /\ c[3] + c[4] + c[5] + c[6] = 3

C4_Witness ==
    pc = "returned" /\ width = 10 /\ ~horiz[0][0] /\ vert[0][0]

\* C5 (P1): when the growth loop has ended and no overlay is applied yet,
\* exactly W*H - 1 walls are absent and is_fully_connected reports the
\* model fully connected.
C5_SpanningTree ==
    pc = "center" =>
        /\ AbsentWalls(horiz, vert, width, height) = width * height - 1
        /\ is_fully_connected(horiz, vert, width, height)
        /\ LoopFree(horiz, vert, width, height)

C5_Witness ==
    pc = "center" /\ width = 10 /\ height = 10 /\ ~horiz[8][9] /\ ~vert[9][8]

\* C7: generate_maze rejects a width or height below 2, and a grid the
\* center block is not strictly inside of, before it builds or grows
\* anything.
ValidParams(w, h) ==
    /\ w >= 2 /\ h >= 2
    /\ CLo > 0 /\ CHi < w - 1 /\ CHi < h - 1

C7_RejectsInvalid ==
    ~ValidParams(width, height) => pc \in {"attempt", "rejected"} /\ attempts = 0

GenNext ==
    \/ GenAttempt
    \/ GenGrow
    \/ GenGrowDone
    \/ GenCenter
    \/ GenStart
    \/ GenCheck

SpecGen == GenInit /\ [][GenNext]_vars

\* The growth loop is sequential code: an iteration that can be made is
\* made, and the loop is left when its condition fails.
SpecGenLive == SpecGen /\ WF_vars(GenGrow) /\ WF_vars(GenGrowDone)

\* The number of visited cells.
SeenCount == Cardinality({c \in Cells(width, height) : seen[c[2]][c[1]]})

\* What the growth loop has left to do at most: the candidates in the
\* frontier and the four a cell adds when it is visited.
Measure == Len(candidate_walls) + 4 * (width * height - SeenCount)

\* C23: an iteration of the growth loop takes one candidate off the
\* frontier; if exactly one of its two cells is visited it removes that
\* wall alone and visits the other cell, else it changes neither the wall
\* model nor the visited set.  Throughout the loop the number of absent
\* walls is the number of visited cells minus 1.  Every iteration lowers
\* Measure, the loop is left only with the frontier empty and every cell
\* visited, and it is left on every sequence of picks.
C23_GrowthStep ==
    /\ [](pc = "grow" => AbsentWalls(horiz, vert, width, height) = SeenCount - 1)
    /\ [][(pc = "grow" /\ pc' = "grow")
          => /\ Measure' < Measure
             /\ \E i \in 0..(Len(candidate_walls) - 1) :
                  LET c == candidate_walls[i + 1]
                      a == <<c[1], c[2]>>
                      b == <<c[3], c[4]>>
                      other == IF seen[b[2]][b[1]] THEN a ELSE b
                  IN IF seen[a[2]][a[1]] # seen[b[2]][b[1]]
                     THEN /\ Joined(horiz', vert', a, b) /\ ~Joined(horiz, vert, a, b)
                          /\ AbsentWalls(horiz', vert', width, height)
                               = AbsentWalls(horiz, vert, width, height) + 1
                          /\ seen'[other[2]][other[1]]
                          /\ SeenCount' = SeenCount + 1
                     ELSE /\ UNCHANGED <<horiz, vert, seen>>
                          /\ candidate_walls' = Pop(candidate_walls, i)]_vars
    /\ [][(pc = "grow" /\ pc' # "grow")
          => /\ pc' = "center" /\ candidate_walls = << >>
             /\ SeenCount = width * height
             /\ UNCHANGED <<horiz, vert, seen>>]_vars
    /\ (pc = "grow") ~> (pc = "center")

\* The loop has ended on the second attempt at a 10x10 maze.
C23_Witness ==
    /\ pc = "center" /\ attempts = 2 /\ width = 10 /\ height = 10
    /\ candidate_walls = << >> /\ seen[9][9]

(***************************************************************************)
(* SpecFC: is_fully_connected(horiz, vert, width, height) called MaxRuns   *)
(* times on one wall model, one action per iteration of its loop.          *)
(***************************************************************************)
FCSpecInit ==
    /\ \E s \in FCSizes :
        /\ width = s[1] /\ height = s[2]
        /\ horiz \in [0..(s[2] - 1) -> [0..(s[1] - 1) -> BOOLEAN]]
        /\ vert \in [0..(s[2] - 1) -> [0..(s[1] - 1) -> BOOLEAN]]
    /\ GrowIdle
    /\ SimIdle
    /\ FileIdle
    /\ fc = FCInit(width, height)
    /\ fc_pc = "loop"
    /\ fc_results = << >>

\* lines 49-74: one iteration of "while queue:"
FCLoop ==
    /\ fc_pc = "loop"
    /\ fc.queue # << >>
    /\ fc' = FCStep(fc, horiz, vert, width, height)
    /\ UNCHANGED <<gridvars, growvars, simvars, filevars, fc_pc, fc_results>>

\* line 76: the queue is empty, return count == width * height
FCReturn ==
    /\ fc_pc = "loop"
    /\ fc.queue = << >>
    /\ fc_results' = Append(fc_results, fc.count = width * height)
    /\ fc_pc' = "done"
    /\ UNCHANGED <<gridvars, growvars, simvars, filevars, fc>>

\* lines 43-47 of the next call on the same arguments
FCCall ==
    /\ fc_pc = "done"
    /\ Len(fc_results) < MaxRuns
    /\ fc' = FCInit(width, height)
    /\ fc_pc' = "loop"
    /\ UNCHANGED <<gridvars, growvars, simvars, filevars, fc_results>>

FCNext == FCLoop \/ FCReturn \/ FCCall

SpecFC == FCSpecInit /\ [][FCNext]_vars

\* The function runs to its end once called: nothing else is scheduled.
SpecFCLive == SpecFC /\ WF_vars(FCNext)

(***************************************************************************)
(* Claims about is_fully_connected (checked under SpecFCLive).             *)
(***************************************************************************)
Marked(st, w, hh) == {c \in Cells(w, hh) : st.visited[c[2]][c[1]]}

\* C6: is_fully_connected returns true exactly when every cell is reachable
\* from (0,0) through absent walls; every call ends; a cell is marked,
\* counted and enqueued at most once in a call; and horiz and vert are left
\* as they were, so that every call on the same model returns the same.
C6_FullyConnected ==
    /\ [](\A i \in 1..Len(fc_results) :
            fc_results[i] = AllReachable(horiz, vert, width, height))
    /\ <>(fc_pc = "done" /\ Len(fc_results) = MaxRuns)
    /\ [](/\ fc.count = Cardinality(Marked(fc, width, height))
          /\ \A i, j \in 1..Len(fc.queue) : fc.queue[i] = fc.queue[j] => i = j
          /\ \A i \in 1..Len(fc.queue) : fc.queue[i] \in Marked(fc, width, height))
    /\ [][(fc_pc = "loop" /\ fc_pc' = "loop") =>
            LET new == Marked(fc', width, height) \ Marked(fc, width, height)
            IN /\ Marked(fc, width, height) \subseteq Marked(fc', width, height)
               /\ fc'.count = fc.count + Cardinality(new)
               /\ Len(fc'.queue) = Len(fc.queue) - 1 + Cardinality(new)
               /\ \A i \in Len(fc.queue)..Len(fc'.queue) : fc'.queue[i] \in new]_vars
    /\ [][horiz' = horiz /\ vert' = vert]_vars

\* The second call has returned true on a 2x2 model whose cell (1,0) is
\* reached only by going north, east and then south.
C6_Witness ==
    /\ fc_pc = "done" /\ fc_results = <<TRUE, TRUE>>
    /\ width = 2 /\ height = 2
    /\ ~horiz[0][0] /\ vert[0][0] /\ ~vert[1][0] /\ ~horiz[0][1]

(***************************************************************************)
(* test_harness.py: configuration (lines 44-51).                           *)
(***************************************************************************)
MAX_STEPS == 5000
MAZE_WIDTH == 10
MAZE_HEIGHT == 10
CENTER_CELLS == {<<4, 4>>, <<4, 5>>, <<5, 4>>, <<5, 5>>}

(***************************************************************************)
(* test_harness.py: load_maze and wall_in_direction (lines 89-129).        *)
(* A maze file is the sequence of its lines, a line the tuple of its six   *)
(* integer fields <<x, y, n, e, s, w>>.                                    *)
(***************************************************************************)
Whitespace == {"\n", " "}

\* str.strip()
RECURSIVE strip(_)
strip(l) ==
    IF l = << >> THEN l
    ELSE IF Head(l) \in Whitespace THEN strip(Tail(l))
    ELSE IF l[Len(l)] \in Whitespace THEN strip(SubSeq(l, 1, Len(l) - 1))
    ELSE l

\* str.split(): the pieces between the runs of whitespace
split(l) == SelectSeq(l, LAMBDA p : p \notin Whitespace)

\* int(text): the number that is written text in decimal
int(text) == CHOOSE i \in 0..MaxInt : ToString(i) = text

\* bool(int(field))
Bool(i) == i # 0

\* lines 101-107: the six numbers of a line that is not blank
ParseLine(l) == [k \in 1..6 |-> int(split(strip(l))[k])]

\* lines 98-114: the dictionary built line by line, blank lines skipped, a
\* later line for a cell replacing an earlier one
load_maze(f) ==
    LET recs == [k \in DOMAIN f |->
                    IF strip(f[k]) = << >> THEN << >> ELSE ParseLine(f[k])]
        used == {k \in DOMAIN f : recs[k] # << >>}
        last(c) == CHOOSE k \in used :
                      /\ <<recs[k][1], recs[k][2]>> = c
                      /\ \A j \in used : j > k => <<recs[j][1], recs[j][2]>> # c
    IN [c \in {<<recs[k][1], recs[k][2]>> : k \in used} |->
           [n |-> Bool(recs[last(c)][3]), e |-> Bool(recs[last(c)][4]),
            s |-> Bool(recs[last(c)][5]), w |-> Bool(recs[last(c)][6])]]

\* lines 124-125
dir_map == [d \in 0..3 |-> <<"n", "e", "s", "w">>[d + 1]]

\* lines 117-129
wall_in_direction_open(wls, cx, cy, direction) ==
    IF <<cx, cy>> \notin DOMAIN wls THEN FALSE
    ELSE wls[<<cx, cy>>][dir_map[direction]]
wall_in_direction(wls, cx, cy, direction) ==
    IF <<cx, cy>> \notin DOMAIN wls THEN TRUE
    ELSE wls[<<cx, cy>>][dir_map[direction]]

(***************************************************************************)
(* test_harness.py: simulate (lines 136-320).                              *)
(***************************************************************************)
\* lines 157-158
dx == [d \in 0..3 |-> <<0, 1, 0, -1>>[d + 1]]
dy == [d \in 0..3 |-> <<1, 0, -1, 0>>[d + 1]]

\* lines 169-185: the reply and the state dict after the call
do_move_forward_nobounds(wls, st) ==
    LET h == st.heading
        nx == st.x + dx[h]
        ny == st.y + dy[h]
    IN IF wall_in_direction(wls, st.x, st.y, h)
       THEN [result |-> "crash", state |-> st]
       ELSE [result |-> "ack",
             state |-> [st EXCEPT !.x = nx, !.y = ny, !.steps = st.steps + 1]]
do_move_forward_nowall(wls, st) ==
    LET h == st.heading
        nx == st.x + dx[h]
        ny == st.y + dy[h]
    IN IF nx < 0 \/ nx >= MAZE_WIDTH \/ ny < 0 \/ ny >= MAZE_HEIGHT
       THEN [result |-> "crash", state |-> st]
       ELSE [result |-> "ack",
             state |-> [st EXCEPT !.x = nx, !.y = ny, !.steps = st.steps + 1]]
do_move_forward_nocount(wls, st) ==
    LET h == st.heading
        nx == st.x + dx[h]
        ny == st.y + dy[h]
    IN IF wall_in_direction(wls, st.x, st.y, h)
       THEN [result |-> "crash", state |-> st]
       ELSE IF nx < 0 \/ nx >= MAZE_WIDTH \/ ny < 0 \/ ny >= MAZE_HEIGHT
       THEN [result |-> "crash", state |-> st]
       ELSE [result |-> "ack", state |-> [st EXCEPT !.x = nx, !.y = ny]]
do_move_forward(wls, st) ==
    LET h == st.heading
        nx == st.x + dx[h]
        ny == st.y + dy[h]
    IN IF wall_in_direction(wls, st.x, st.y, h)
       THEN [result |-> "crash", state |-> st]
       ELSE IF nx < 0 \/ nx >= MAZE_WIDTH \/ ny < 0 \/ ny >= MAZE_HEIGHT
       THEN [result |-> "crash", state |-> st]
       ELSE [result |-> "ack",
             state |-> [st EXCEPT !.x = nx, !.y = ny, !.steps = st.steps + 1]]

\* A line of text is the sequence of its pieces: a command word is one
\* piece, so is an argument string, so is the newline.  readline() returns
\* the empty string at end of input.
EOF == << >>
\* "line" before the first readline()
NoLine == <<"(unset)">>

\* cmd == "word" and cmd.startswith("word")
Is(cmd, word) == cmd = <<word>>
startswith(cmd, word) == cmd # << >> /\ Head(cmd) = word

\* lines 289-296
Visual == {"setWall", "clearWall", "setColor", "clearColor", "clearAllColor",
           "setText", "clearText", "clearAllText"}
\* the commands compared with == in lines 230-286
Exact == {"mazeWidth", "mazeHeight", "wallFront", "wallRight", "wallLeft",
          "turnRight", "turnLeft", "wasReset", "ackReset"}

\* lines 217-223: the classification at end of input
ExitResult_centeronly(rc, rs) ==
    IF rc THEN [success |-> TRUE, reason |-> "Fast run complete"]
    ELSE [success |-> FALSE, reason |-> "Process exited without reaching center"]
ExitResult(rc, rs) ==
    IF rc /\ rs THEN [success |-> TRUE, reason |-> "Fast run complete"]
    ELSE IF rc THEN [success |-> FALSE,
                     reason |-> "Reached center but did not return to start"]
    ELSE [success |-> FALSE, reason |-> "Process exited without reaching center"]

\* How the process is found by the "finally" block (lines 310-314) once the
\* session is over: it has exited, or process.kill() was called on it.
Stopped == {"exited", "killed"}

\* The driven process (lines 189-196, read at line 214).  script.lines[i] is
\* the set of lines it may send as its i-th line; after the last one it goes
\* on from script.lines[script.back], or has nothing more to send when
\* script.back is 0.  It may close its stream at any point.
Offered == IF ip <= Len(script.lines) THEN script.lines[ip] ELSE {}
Advance ==
    ip' = IF ip < Len(script.lines) \/ script.back = 0 THEN ip + 1 ELSE script.back

\* The iteration passes the step check of line 208.
InLoop_nocheck == sim_pc = "loop"
InLoop == sim_pc = "loop" /\ state.steps <= MAX_STEPS

\* process.stdin.write(text); process.stdin.flush() succeeds: the loop goes on.
Written_nothing(text) ==
    /\ reply' = ""
    /\ UNCHANGED <<success, reason, proc, sim_pc>>
Written(text) ==
    /\ reply' = text
    /\ UNCHANGED <<success, reason, proc, sim_pc>>

\* The write raises (the process no longer reads): lines 303-314.
WriteFails ==
    /\ reply' = ""
    /\ reason' = "Harness error"
    /\ proc' \in Stopped
    /\ sim_pc' = "returned"
    /\ UNCHANGED success

\* A command that only answers: read l, write text.
Answer(l, text) ==
    /\ line' = l
    /\ Written(text) \/ WriteFails
    /\ Advance
    /\ UNCHANGED <<walls, state, reached_center, reached_start, script, issued>>
    /\ UNCHANGED <<gridvars, growvars, fcvars, filevars>>

\* lines 188-203: launch the process.  Popen starts it, or raises
\* FileNotFoundError (line 197), or raises another OSError (the file is
\* there and cannot be executed), which no handler catches: simulate raises.
SimLaunch ==
    /\ sim_pc = "launch"
    /\ \/ /\ proc' = "running"
          /\ sim_pc' = "loop"
          /\ UNCHANGED reason
       \/ /\ reason' = "mouse.exe not found"
          /\ sim_pc' = "returned"
          /\ UNCHANGED proc
       \/ /\ sim_pc' = "raised"
          /\ UNCHANGED <<proc, reason>>
    /\ UNCHANGED <<walls, state, reached_center, reached_start, success, line, reply,
                   script, ip, issued>>
    /\ UNCHANGED <<gridvars, growvars, fcvars, filevars>>

\* lines 208-211
SimTimeout_byflags ==
    /\ sim_pc = "loop"
    /\ state.steps > MAX_STEPS
    /\ success' = ExitResult(reached_center, reached_start).success
    /\ reason' = "Timeout"
    /\ proc' = "killed"
    /\ sim_pc' = "returned"
    /\ reply' = ""
    /\ UNCHANGED <<walls, state, reached_center, reached_start, line, script, ip, issued>>
    /\ UNCHANGED <<gridvars, growvars, fcvars, filevars>>
SimTimeout ==
    /\ sim_pc = "loop"
    /\ state.steps > MAX_STEPS
    /\ reason' = "Timeout"
    /\ proc' = "killed"
    /\ sim_pc' = "returned"
    /\ reply' = ""
    /\ UNCHANGED <<walls, state, reached_center, reached_start, success, line,
                   script, ip, issued>>
    /\ UNCHANGED <<gridvars, growvars, fcvars, filevars>>

\* lines 214-224: end of input
SimEOF ==
    /\ InLoop
    /\ line' = EOF
    /\ success' = ExitResult(reached_center, reached_start).success
    /\ reason' = ExitResult(reached_center, reached_start).reason
    /\ proc' \in Stopped
    /\ sim_pc' = "returned"
    /\ reply' = ""
    /\ UNCHANGED <<walls, state, reached_center, reached_start, script, ip, issued>>
    /\ UNCHANGED <<gridvars, growvars, fcvars, filevars>>

\* lines 230-232
SimMazeWidth ==
    /\ InLoop
    /\ \E l \in Offered : Is(strip(l), "mazeWidth") /\ Answer(l, ToString(MAZE_WIDTH))

\* lines 234-236
SimMazeHeight ==
    /\ InLoop
    /\ \E l \in Offered : Is(strip(l), "mazeHeight") /\ Answer(l, ToString(MAZE_HEIGHT))

TrueFalse(b) == IF b THEN "true" ELSE "false"

\* lines 160-161, 238-241
SimWallFront ==
    /\ InLoop
    /\ \E l \in Offered :
        /\ Is(strip(l), "wallFront")
        /\ Answer(l, TrueFalse(wall_in_direction(walls, state.x, state.y, state.heading)))

\* lines 163-164, 243-246
SimWallRight ==
    /\ InLoop
    /\ \E l \in Offered :
        /\ Is(strip(l), "wallRight")
        /\ Answer(l, TrueFalse(wall_in_direction(walls, state.x, state.y,
                                                 (state.heading + 1) % 4)))

\* lines 166-167, 248-251
SimWallLeft ==
    /\ InLoop
    /\ \E l \in Offered :
        /\ Is(strip(l), "wallLeft")
        /\ Answer(l, TrueFalse(wall_in_direction(walls, state.x, state.y,
                                                 (state.heading + 3) % 4)))

\* lines 264-268: <<reached_center, reached_start>> after an acknowledged
\* move that ended on pos
track_noorder(pos, rc, rs) ==
    IF pos \in CENTER_CELLS /\ ~rc THEN <<TRUE, rs>>
    ELSE IF pos = <<0, 0>> /\ ~rs THEN <<rc, TRUE>>
    ELSE <<rc, rs>>
track(pos, rc, rs) ==
    IF pos \in CENTER_CELLS /\ ~rc THEN <<TRUE, rs>>
    ELSE IF pos = <<0, 0>> /\ rc /\ ~rs THEN <<rc, TRUE>>
    ELSE <<rc, rs>>

\* lines 253-268
SimMoveForward ==
    /\ InLoop
    /\ \E l \in Offered :
        /\ startswith(strip(l), "moveForward")
        /\ ~\E word \in Exact : Is(strip(l), word)
        /\ line' = l
        /\ LET r == do_move_forward(walls, state)
               pos == <<r.state.x, r.state.y>>
           IN /\ state' = r.state
              /\ \/ /\ r.result = "crash"
                    /\ reply' = "crash"
                    /\ reason' = "Crash"
                    /\ proc' = "killed"
                    /\ sim_pc' = "returned"
                    /\ UNCHANGED <<success, reached_center, reached_start>>
                 \/ /\ r.result = "ack"
                    /\ Written("ack")
                    /\ reached_center' = track(pos, reached_center, reached_start)[1]
                    /\ reached_start' = track(pos, reached_center, reached_start)[2]
                 \/ /\ WriteFails
                    /\ UNCHANGED <<reached_center, reached_start>>
    /\ issued' = issued + 1
    /\ Advance
    /\ UNCHANGED <<walls, script>>
    /\ UNCHANGED <<gridvars, growvars, fcvars, filevars>>

\* lines 271 and 276: the heading after a turn
turn_right(h) == (h + 1) % 4
turn_left_right(h) == (h + 1) % 4
turn_left(h) == (h + 3) % 4

\* A turn to heading h: the heading is set before the reply is written.
Turn(l, h) ==
    /\ line' = l
    /\ state' = [state EXCEPT !.heading = h]
    /\ Written("ack") \/ WriteFails
    /\ Advance
    /\ UNCHANGED <<walls, reached_center, reached_start, script, issued>>
    /\ UNCHANGED <<gridvars, growvars, fcvars, filevars>>

\* lines 270-273
SimTurnRight ==
    /\ InLoop
    /\ \E l \in Offered : Is(strip(l), "turnRight") /\ Turn(l, turn_right(state.heading))

\* lines 275-278
SimTurnLeft ==
    /\ InLoop
    /\ \E l \in Offered : Is(strip(l), "turnLeft") /\ Turn(l, turn_left(state.heading))

\* lines 280-282
SimWasReset ==
    /\ InLoop
    /\ \E l \in Offered : Is(strip(l), "wasReset") /\ Answer(l, "false")

\* lines 284-286
SimAckReset ==
    /\ InLoop
    /\ \E l \in Offered : Is(strip(l), "ackReset") /\ Answer(l, "ack")

\* A line that is read and not answered.
Ignore_acked(l) ==
    /\ line' = l
    /\ reply' = "ack"
    /\ Advance
    /\ UNCHANGED <<walls, state, reached_center, reached_start, success, reason,
                   proc, script, issued, sim_pc>>
    /\ UNCHANGED <<gridvars, growvars, fcvars, filevars>>
Ignore(l) ==
    /\ line' = l
    /\ reply' = ""
    /\ Advance
    /\ UNCHANGED <<walls, state, reached_center, reached_start, success, reason,
                   proc, script, issued, sim_pc>>
    /\ UNCHANGED <<gridvars, growvars, fcvars, filevars>>

\* lines 289-297
SimVisual ==
    /\ InLoop
    /\ \E l \in Offered :
        /\ ~\E word \in Exact : Is(strip(l), word)
        /\ ~startswith(strip(l), "moveForward")
        /\ \E word \in Visual : startswith(strip(l), word)
        /\ Ignore(l)

\* lines 299-301
SimUnknown ==
    /\ InLoop
    /\ \E l \in Offered :
        /\ l # EOF
        /\ ~\E word \in Exact : Is(strip(l), word)
        /\ ~startswith(strip(l), "moveForward")
        /\ ~\E word \in Visual : startswith(strip(l), word)
        /\ Ignore(l)

SimNext ==
    \/ SimLaunch
    \/ SimTimeout
    \/ SimEOF
    \/ SimMazeWidth
    \/ SimMazeHeight
    \/ SimWallFront
    \/ SimWallRight
    \/ SimWallLeft
    \/ SimMoveForward
    \/ SimTurnRight
    \/ SimTurnLeft
    \/ SimWasReset
    \/ SimAckReset
    \/ SimVisual
    \/ SimUnknown

(***************************************************************************)
(* The sessions of SpecSim: a maze file and the lines the driven process   *)
(* may send, in any order and number, before it closes its stream.         *)
(***************************************************************************)
\* A .maz file with one line "x y n e s w" for each of the cells given.
MazFile(cells) == [i \in DOMAIN cells |-> FormatLine(cells[i])]

\* No cell at all: every cell reads as walled on all four sides.
EmptyFile == << >>

\* A corridor from (0,0) north to (0,4) and east into the center cell (4,4).
CorridorFile ==
    MazFile(
    << <<0, 0, 0, 1, 1, 1>>, <<0, 1, 0, 1, 0, 1>>, <<0, 2, 0, 1, 0, 1>>,
       <<0, 3, 0, 1, 0, 1>>, <<0, 4, 1, 0, 0, 1>>, <<1, 4, 1, 0, 1, 0>>,
       <<2, 4, 1, 0, 1, 0>>, <<3, 4, 1, 0, 1, 0>>, <<4, 4, 1, 1, 1, 0>> >>)

\* Column 0 and row 0 with the outer boundary left open: the column leads
\* north only and the row east only (the way back is walled).
OpenBorderFile ==
    MazFile(
    << <<0, 0, 0, 0, 0, 0>> >> \o
    [i \in 1..(MAZE_HEIGHT - 1) |-> <<0, i, 0, 1, 1, 0>>] \o
    [i \in 1..(MAZE_WIDTH - 1) |-> <<i, 0, 1, 0, 0, 1>>])

Cmd(word) == <<word, "\n">>
CmdArg(word, arg) == <<word, arg, "\n">>

AllLines ==
    {Cmd(word) : word \in Exact \cup Visual \cup {"moveForward", "reset"}} \cup
    {CmdArg(word, " 0 0 n") : word \in Visual} \cup
    {CmdArg("moveForward", " 2"), CmdArg("turnRight", "x"), CmdArg("wallFront", " "),
     <<"wallLeft">>, <<"\n">>}

\* A process that may send any line at any time.
Free == [lines |-> <<AllLines>>, back |-> 1]

Times(n, l) == [i \in 1..n |-> {l}]
F == Cmd("moveForward")
R == Cmd("turnRight")
L == Cmd("turnLeft")

\* Back and forth between (0,0) and (0,1), for ever.
Oscillate ==
    [lines |-> <<{F, Cmd("wallFront")}, {R}, {R}, {F}, {R}, {R}>>, back |-> 1]

\* Through the corridor into the center cell (4,4), back to (0,0), and then
\* back and forth between (0,0) and (0,1) for ever.
ThereAndBack ==
    [lines |-> Times(4, F) \o <<{R, L}>> \o Times(4, F) \o <<{R}, {R}>> \o
               Times(4, F) \o <<{L}>> \o Times(4, F) \o <<{R}, {R}>> \o
               <<{F}, {R}, {R}, {F}, {R}, {R}>>,
     back |-> 23]

\* Two lines, and then nothing more: the process neither sends a line nor
\* closes its stream unless it chooses to exit.
Silent == [lines |-> <<{Cmd("mazeWidth")}, {F}>>, back |-> 0]

Sessions ==
    {[file |-> EmptyFile, script |-> Free],
     [file |-> CorridorFile, script |-> Silent],
     [file |-> OpenBorderFile, script |-> Free],
     [file |-> CorridorFile, script |-> Oscillate],
     [file |-> CorridorFile, script |-> ThereAndBack]}

\* lines 145-158: the state simulate starts from
SimInit ==
    /\ \E sn \in Sessions : walls = load_maze(sn.file) /\ script = sn.script
    /\ ip = 1 /\ issued = 0
    /\ state = [x |-> 0, y |-> 0, heading |-> 0, steps |-> 0]
    /\ reached_center = FALSE /\ reached_start = FALSE
    /\ success = FALSE /\ reason = "Unknown"
    /\ line = NoLine /\ reply = "" /\ proc = "none"
    /\ sim_pc = "launch"
    /\ width = MAZE_WIDTH /\ height = MAZE_HEIGHT
    /\ horiz = << >> /\ vert = << >>
    /\ GrowIdle
    /\ FCIdle
    /\ FileIdle

SpecSim == SimInit /\ [][SimNext]_vars

(***************************************************************************)
(* Claims about simulate (checked under SpecSim).  A step that leaves a    *)
(* state with InLoop is one iteration of the loop that got past the step   *)
(* check and read line'.                                                   *)
(***************************************************************************)
IsMove(l) == l # EOF /\ l # NoLine /\ startswith(strip(l), "moveForward")

\* The iteration's write to the process did not raise.
NoFault == reason' # "Harness error"

\* C8: a moveForward read while the maze has a wall ahead of the agent is
\* answered crash; the session ends with reason Crash and success false,
\* position and step count are as before the command, the process is
\* stopped, and nothing is read or answered after the session has ended.
C8_CrashDetection ==
    /\ [][(/\ InLoop /\ IsMove(line') /\ NoFault
           /\ wall_in_direction(walls, state.x, state.y, state.heading))
          => /\ reply' = "crash" /\ reason' = "Crash" /\ ~success'
             /\ sim_pc' = "returned" /\ proc' \in Stopped
             /\ state' = state]_vars
    /\ [][sim_pc # "returned"]_vars

\* The first command of the session is a moveForward into a wall.
C8_Witness ==
    /\ sim_pc = "returned" /\ reason = "Crash" /\ reply = "crash"
    /\ IsMove(line) /\ state = [x |-> 0, y |-> 0, heading |-> 0, steps |-> 0]
    /\ walls = load_maze(EmptyFile)

\* The cell ahead of the agent is outside the grid.
AheadOutside(st) ==
    \/ st.x + dx[st.heading] < 0 \/ st.x + dx[st.heading] >= MAZE_WIDTH
    \/ st.y + dy[st.heading] < 0 \/ st.y + dy[st.heading] >= MAZE_HEIGHT

\* C9: the agent is inside the grid in every state, and a moveForward whose
\* target cell is outside the grid is answered crash and ends the session,
\* also when the maze records no wall on that side.
C9_InsideGrid ==
    /\ [](/\ 0 <= state.x /\ state.x < MAZE_WIDTH
          /\ 0 <= state.y /\ state.y < MAZE_HEIGHT)
    /\ [][(InLoop /\ IsMove(line') /\ NoFault /\ AheadOutside(state))
          => /\ reply' = "crash" /\ reason' = "Crash" /\ ~success'
             /\ sim_pc' = "returned" /\ state' = state]_vars

\* A crash at the east edge where the maze file has no wall.
C9_Witness ==
    /\ sim_pc = "returned" /\ reason = "Crash"
    /\ state.x = MAZE_WIDTH - 1 /\ state.heading = 1
    /\ ~wall_in_direction(walls, state.x, state.y, state.heading)

\* C10: when end of input is read the session ends, with success exactly
\* when reached_center and reached_start are both true, as "partial" when
\* only reached_center is, as "no progress" when reached_center is false;
\* a session that ended by crash or timeout never has success true.
C10_ExitClassification ==
    /\ [][(InLoop /\ line' = EOF)
          => /\ sim_pc' = "returned"
             /\ success' = (reached_center /\ reached_start)
             /\ reached_center /\ reached_start => reason' = "Fast run complete"
             /\ reached_center /\ ~reached_start
                  => reason' = "Reached center but did not return to start"
             /\ ~reached_center => reason' = "Process exited without reaching center"
             /\ UNCHANGED <<reached_center, reached_start, state>>]_vars
    /\ [](sim_pc = "returned" /\ reason \in {"Crash", "Timeout", "Harness error"}
            => ~success)
    /\ [](success => sim_pc = "returned" /\ reason = "Fast run complete")

\* The process closes its stream after reaching the center and (0,0) again.
C10_Witness ==
    /\ sim_pc = "returned" /\ success /\ line = EOF
    /\ reached_center /\ reached_start /\ state.steps = 16

\* The move the agent would make is neither into a wall nor off the grid.
Legal(st) ==
    /\ <<st.x, st.y>> \in DOMAIN walls
    /\ ~walls[<<st.x, st.y>>][<<"n", "e", "s", "w">>[st.heading + 1]]
    /\ ~AheadOutside(st)

C12_TimeoutAtBoundary ==
    /\ [](state.steps <= MAX_STEPS + 1)
    /\ [](reason = "Timeout" => sim_pc = "returned" /\ state.steps = MAX_STEPS + 1)
    /\ [][sim_pc = "loop" /\ state.steps > MAX_STEPS => sim_pc' = "returned"]_vars

\* The oscillating process is stopped after its 5001st move.
C12_Witness ==
    /\ sim_pc = "returned" /\ reason = "Timeout" /\ script = Oscillate
    /\ state.steps = MAX_STEPS + 1 /\ ~reached_center

\* C13 as stated: once the step counter exceeds MAX_STEPS the session times
\* out only on a moveForward request: if the line the process sends next is
\* not a moveForward (or it sends none), the next step is not the timeout.
C13_TimeoutOnlyOnMove ==
    [][(/\ sim_pc = "loop" /\ state.steps > MAX_STEPS
        /\ ~\E l \in Offered : IsMove(l))
       => reason' # "Timeout"]_vars

\* C13 amended: the timeout is taken by the step check at the top of the
\* loop (line 208), right after the acknowledged moveForward that took the
\* counter above MAX_STEPS and before any further line is read: with the
\* counter above MAX_STEPS no query, turn, cosmetic command or end of input
\* is read, the process is killed, and the session is classified Timeout
\* with success false whatever the two flags are.
C13_TimeoutBeforeRead ==
    /\ [][(sim_pc = "loop" /\ state.steps > MAX_STEPS)
          => /\ reason' = "Timeout" /\ ~success' /\ proc' = "killed"
             /\ reply' = ""
             /\ UNCHANGED <<line, ip, issued, state, reached_center, reached_start>>]_vars
    /\ [][(reason' = "Timeout" /\ reason # "Timeout")
          => IsMove(line) /\ reply = "ack" /\ state.steps = MAX_STEPS + 1]_vars
    /\ [](success => state.steps <= MAX_STEPS)

\* A session that had reached the center and (0,0) again is timed out.
C13_Witness ==
    /\ sim_pc = "returned" /\ reason = "Timeout" /\ ~success
    /\ reached_center /\ reached_start /\ proc = "killed"

\* What the maze file says about side d of the agent's cell: a cell that is
\* missing from the file is walled on every side.
FileWall(d) ==
    <<state.x, state.y>> \in DOMAIN walls
        => walls[<<state.x, state.y>>][<<"n", "e", "s", "w">>[d + 1]]

\* The line is the command word, possibly with blanks around it.
IsWord(l, word) == l # EOF /\ strip(l) = <<word>>

\* C14: wallFront, wallRight and wallLeft are answered true exactly when the
\* maze has a wall on the side heading, (heading + 1) mod 4, (heading + 3)
\* mod 4 of the agent's cell, mazeWidth and mazeHeight are answered 10, and
\* none of the five changes the state dict, the flags or the maze or ends
\* the session.
C14_SensorsTruthful ==
    [][(InLoop /\ NoFault)
       => /\ IsWord(line', "wallFront")
               => reply' = (IF FileWall(state.heading) THEN "true" ELSE "false")
          /\ IsWord(line', "wallRight")
               => reply' = (IF FileWall((state.heading + 1) % 4) THEN "true" ELSE "false")
          /\ IsWord(line', "wallLeft")
               => reply' = (IF FileWall((state.heading + 3) % 4) THEN "true" ELSE "false")
          /\ IsWord(line', "mazeWidth") => reply' = "10"
          /\ IsWord(line', "mazeHeight") => reply' = "10"
          /\ (\E word \in {"wallFront", "wallRight", "wallLeft", "mazeWidth", "mazeHeight"} :
                 IsWord(line', word))
               => /\ UNCHANGED <<state, reached_center, reached_start, walls>>
                  /\ sim_pc' = "loop"]_vars

\* Heading east in row 0 of the open-border maze: no wall on the right.
C14_Witness ==
    /\ sim_pc = "loop" /\ IsWord(line, "wallRight") /\ reply = "false"
    /\ state.x = 3 /\ state.y = 0 /\ state.heading = 1

\* C15: both flags start false and never go back to false; reached_center
\* becomes true exactly with the first acknowledged move that ends on a
\* center cell, reached_start exactly with the first acknowledged move
\* after that which ends on (0,0); reached_start is never true while
\* reached_center is false.
C15_Flags ==
    /\ [](sim_pc = "launch" => ~reached_center /\ ~reached_start)
    /\ [](reached_start => reached_center)
    /\ [][LET moved == InLoop /\ IsMove(line') /\ reply' = "ack"
              pos == <<state'.x, state'.y>>
          IN /\ reached_center' =
                    (reached_center \/ (moved /\ pos \in {4, 5} \X {4, 5}))
             /\ reached_start' =
                    (reached_start \/ (moved /\ pos = <<0, 0>> /\ reached_center))]_vars

\* Both flags are set and the agent has moved on from (0,0).
C15_Witness ==
    /\ sim_pc = "loop" /\ reached_center /\ reached_start
    /\ state.steps = 17 /\ state.y = 1

\* The line is answered by one of the branches of lines 230-286.
Expects(l) == IsMove(l) \/ \E word \in Exact : IsWord(l, word)

\* C16: a line that starts with one of the eight cosmetic command words,
\* and a line no branch recognizes, gets no reply, changes neither the state
\* dict nor the flags nor the maze, and leaves the session running.
C16_CosmeticIgnored ==
    [][(/\ InLoop /\ line' # EOF
        /\ \/ \E word \in {"setWall", "clearWall", "setColor", "clearColor",
                           "clearAllColor", "setText", "clearText", "clearAllText"} :
                 startswith(strip(line'), word)
           \/ ~Expects(line'))
       => /\ reply' = ""
          /\ sim_pc' = "loop" /\ proc' = "running"
          /\ UNCHANGED <<state, reached_center, reached_start, walls,
                         success, reason, issued>>]_vars

\* A setWall line with arguments, read after two moves.
C16_Witness ==
    /\ sim_pc = "loop" /\ line = CmdArg("setWall", " 0 0 n") /\ reply = ""
    /\ state.steps = 2 /\ proc = "running"

\* C17: the heading is always one of 0, 1, 2, 3; a turnRight sets it to
\* (heading + 1) mod 4 and a turnLeft to (heading + 3) mod 4, changing
\* nothing else of the state dict and neither flag; unless the write fails
\* both are answered ack and the session goes on; a left turn undoes a right
\* turn and four equal turns give the heading back.
C17_Turns ==
    /\ [](state.heading \in 0..3)
    /\ [][(InLoop /\ IsWord(line', "turnRight"))
          => /\ state' = [state EXCEPT !.heading = (state.heading + 1) % 4]
             /\ UNCHANGED <<reached_center, reached_start>>
             /\ NoFault => reply' = "ack" /\ sim_pc' = "loop"]_vars
    /\ [][(InLoop /\ IsWord(line', "turnLeft"))
          => /\ state' = [state EXCEPT !.heading = (state.heading + 4 - 1) % 4]
             /\ UNCHANGED <<reached_center, reached_start>>
             /\ NoFault => reply' = "ack" /\ sim_pc' = "loop"]_vars
    /\ [](\A h \in 0..3 :
            /\ turn_left(turn_right(h)) = h
            /\ turn_right(turn_left(h)) = h
            /\ turn_right(turn_right(turn_right(turn_right(h)))) = h
            /\ turn_left(turn_left(turn_left(turn_left(h)))) = h)

\* A left turn from north to west.
C17_Witness ==
    /\ sim_pc = "loop" /\ IsWord(line, "turnLeft") /\ reply = "ack"
    /\ state.heading = 3 /\ state.steps = 0

\* C18: an iteration writes a line exactly when the line it has read is
\* one of the ten answered commands (and the write does not fail); the
\* launch and the step check write nothing; wasReset is answered false.
C18_RequestResponse ==
    /\ [][(InLoop /\ NoFault)
          => /\ (reply' # "") = (line' # EOF /\ Expects(line'))
             /\ reply' \in {"", "10", "true", "false", "ack", "crash"}
             /\ IsWord(line', "wasReset") => reply' = "false"
             /\ IsWord(line', "ackReset") => reply' = "ack"]_vars
    /\ [][~InLoop => reply' = ""]_vars

\* wasReset asked after one move.
C18_Witness ==
    /\ sim_pc = "loop" /\ IsWord(line, "wasReset") /\ reply = "false"
    /\ state.steps = 1

\* C19: when simulate returns the process has exited or was killed, the
\* one exception being a launch that failed, where no process was started;
\* and a launch that fails returns the setup-error record with 0 steps.
C19_NoProcessLeft ==
    /\ [](sim_pc = "returned"
            => \/ proc \in Stopped
               \/ /\ proc = "none" /\ reason = "mouse.exe not found"
                  /\ ~success /\ state.steps = 0 /\ line = NoLine)
    /\ [][(sim_pc = "launch" /\ proc' # "running")
          => sim_pc' = "returned" /\ reason' = "mouse.exe not found"]_vars

(***************************************************************************)
(* The maze file between the two programs: generate_maze.py writes it with *)
(* save_maze, test_harness.py reads it with load_maze at the start of      *)
(* simulate.  SpecMaz applies the two to every wall model of the small     *)
(* grids and to some wall models of the 10x10 grid, and runs a session on  *)
(* what was loaded.                                                        *)
(***************************************************************************)
\* 10x10 wall models <<horiz, vert>>: no wall stored at all (the boundary
\* entries included), every wall stored, and walls between the columns only.
AllOpen == <<Matrix(MAZE_WIDTH, MAZE_HEIGHT, FALSE), Matrix(MAZE_WIDTH, MAZE_HEIGHT, FALSE)>>
AllWalls == <<Matrix(MAZE_WIDTH, MAZE_HEIGHT, TRUE), Matrix(MAZE_WIDTH, MAZE_HEIGHT, TRUE)>>
Columns == <<Matrix(MAZE_WIDTH, MAZE_HEIGHT, FALSE), Matrix(MAZE_WIDTH, MAZE_HEIGHT, TRUE)>>

\* A process that closes its stream without sending a line.
Closed == [lines |-> << >>, back |-> 0]

\* North as far as it goes, a look ahead, and one more move.
NorthRun ==
    [lines |-> Times(MAZE_HEIGHT - 1, F) \o <<{Cmd("wallFront")}, {F}>>, back |-> 0]

\* The same to the east.
EastRun ==
    [lines |-> <<{R}>> \o Times(MAZE_WIDTH - 1, F) \o <<{Cmd("wallFront")}, {F}>>,
     back |-> 0]

\* Any ProbeLen lines.
Probe == [lines |-> [i \in 1..ProbeLen |-> AllLines], back |-> 0]

\* The driven processes a session on the loaded file is run with.
MazScripts(w, h) ==
    IF w = MAZE_WIDTH /\ h = MAZE_HEIGHT
    THEN {NorthRun, EastRun, Probe, Oscillate}
    ELSE {Closed}

MazInit ==
    /\ \/ \E s \in FCSizes :
            /\ width = s[1] /\ height = s[2]
            /\ horiz \in [0..(s[2] - 1) -> [0..(s[1] - 1) -> BOOLEAN]]
            /\ vert \in [0..(s[2] - 1) -> [0..(s[1] - 1) -> BOOLEAN]]
       \/ \E m \in {AllOpen, AllWalls, Columns} :
            /\ width = MAZE_WIDTH /\ height = MAZE_HEIGHT
            /\ horiz = m[1] /\ vert = m[2]
    /\ maz = << >> /\ maz_pc = "save"
    /\ GrowIdle
    /\ FCIdle
    /\ SimIdle

\* generate_maze.py lines 234-241: the file is written
MazSave ==
    /\ maz_pc = "save"
    /\ maz' = save_maze(horiz, vert, width, height)
    /\ maz_pc' = "load"
    /\ UNCHANGED <<gridvars, growvars, fcvars, simvars>>

\* test_harness.py lines 145-158: simulate loads the file and sets out
MazLoad ==
    /\ maz_pc = "load"
    /\ walls' = load_maze(maz)
    /\ maz_pc' = "loaded"
    /\ state' = [x |-> 0, y |-> 0, heading |-> 0, steps |-> 0]
    /\ script' \in MazScripts(width, height)
    /\ ip' = 1 /\ issued' = 0
    /\ sim_pc' = "launch"
    /\ UNCHANGED <<reached_center, reached_start, success, reason, line, reply, proc>>
    /\ UNCHANGED <<maz, gridvars, growvars, fcvars>>

MazNext ==
    \/ MazSave
    \/ MazLoad
    \/ SimNext

SpecMaz == MazInit /\ [][MazNext]_vars

\* The numbers of the line save_maze wrote for cell (cx, cy).
View(cx, cy) == ParseLine(maz[cx * height + cy + 1])

\* C21 (P4): in the file save_maze writes, the e value of (x,y) equals the
\* w value of (x+1,y) and the n value of (x,y) equals the s value of
\* (x,y+1), and n at y = H-1, e at x = W-1, s at y = 0 and w at x = 0 are 1
\* whatever the matrices hold.
C21_WallSymmetry ==
    maz_pc = "load" =>
        \A cx \in 0..(width - 1), cy \in 0..(height - 1) :
            /\ View(cx, cy)[1] = cx /\ View(cx, cy)[2] = cy
            /\ cx < width - 1 => View(cx, cy)[4] = View(cx + 1, cy)[6]
            /\ cy < height - 1 => View(cx, cy)[3] = View(cx, cy + 1)[5]
            /\ cx < width - 1 => (View(cx, cy)[4] = 1) = vert[cy][cx]
            /\ cy < height - 1 => (View(cx, cy)[3] = 1) = horiz[cy][cx]
            /\ cy = height - 1 => View(cx, cy)[3] = 1
            /\ cx = width - 1 => View(cx, cy)[4] = 1
            /\ cy = 0 => View(cx, cy)[5] = 1
            /\ cx = 0 => View(cx, cy)[6] = 1

\* The 10x10 model that stores no wall: the file has the boundary walled.
C21_Witness ==
    /\ maz_pc = "load" /\ width = MAZE_WIDTH /\ ~horiz[MAZE_HEIGHT - 1][0]
    /\ maz[MAZE_HEIGHT] = <<"0", " ", "9", " ", "1", " ", "0", " ", "0", " ", "1", "\n">>

\* C22 (P8): what load_maze reads from the file save_maze wrote has each of
\* the W*H cells of the grid, each written on exactly one line, with the
\* n/e/s/w facts save_maze derived for the cell; neither the file nor the
\* dictionary changes during the session.
C22_RoundTrip ==
    /\ [](maz_pc = "loaded" /\ sim_pc = "launch" =>
            /\ Len(maz) = width * height
            /\ DOMAIN walls = (0..(width - 1)) \X (0..(height - 1))
            /\ \A c \in DOMAIN walls :
                 LET d == SaveCell(horiz, vert, width, height, c[1], c[2])
                 IN /\ walls[c] = [n |-> d[3] = 1, e |-> d[4] = 1,
                                   s |-> d[5] = 1, w |-> d[6] = 1]
                    /\ Cardinality({k \in DOMAIN maz :
                          ParseLine(maz[k])[1] = c[1] /\ ParseLine(maz[k])[2] = c[2]}) = 1)
    /\ [][maz_pc = "loaded" => UNCHANGED <<maz, walls>>]_vars

\* A cell at the north edge of a 3x2 grid, open to the east and the south.
C22_Witness ==
    /\ maz_pc = "loaded" /\ sim_pc = "launch" /\ width = 3 /\ height = 2
    /\ walls[<<1, 1>>] = [n |-> TRUE, e |-> FALSE, s |-> FALSE, w |-> TRUE]
    /\ ~horiz[1][1]

SimServe ==
    \/ SimMazeWidth \/ SimMazeHeight
    \/ SimWallFront \/ SimWallRight \/ SimWallLeft
    \/ SimMoveForward
    \/ SimTurnRight \/ SimTurnLeft
    \/ SimWasReset \/ SimAckReset
    \/ SimVisual \/ SimUnknown

SpecSimLive ==
    /\ SpecSim
    /\ WF_vars(SimLaunch) /\ WF_vars(SimTimeout) /\ WF_vars(SimServe)

\* The session is blocked in readline() (line 214) and the process has no
\* further line to send.
NoInput == InLoop /\ Offered = {}

\* C20: a session whose driven process sends no further line and does not
\* close its stream is ended all the same: from a state where the harness
\* waits for a line that is not coming, a result record is eventually
\* returned.
C20_SilenceEnds == NoInput ~> (sim_pc = "returned")
====
